---------------------------- MODULE Spec2Model ----------------------------
(***************************************************************************)
(* OrdHash (src/src/lib.rs): a HashMap from keys to (generation, value)    *)
(* slots, a VecDeque of (key, generation) order tags, a generation counter *)
(* and an incrementally maintained live length.                            *)
(*                                                                         *)
(* The container is the record                                             *)
(*   [map, order, generation, length]                                      *)
(* and every method is an operator from such a record (and the method's    *)
(* arguments) to the record after the call, the value returned, and        *)
(* whether the call panicked.  The variables hold the fields of the one    *)
(* container the program owns; the actions are the calls a client makes.   *)
(***************************************************************************)
EXTENDS Integers, Sequences, FiniteSets, TLC

\* ----------------------------------------------------------------- bounds
NumKeys == 2
NumVals == 2
MaxGen == 3

Keys == 1..NumKeys
Vals == 1..NumVals

\* ------------------------------------------------------------------ usize
\* `generation` and `length` are usize.  The width is the target's pointer
\* width; the narrowest one Rust targets have is taken, as TLC's integers are
\* 32 bits wide.  Nothing below depends on the width beyond 0 - 1 wrapping to
\* the largest value and the largest value + 1 wrapping to 0.
UsizeBits == 16
UsizeModulus == 2 ^ UsizeBits
UsizeMax == UsizeModulus - 1

\* a + b and a - b as the unchecked build computes them
wrapping_add(a, b) == (a + b) % UsizeModulus
wrapping_sub(a, b) == (a + UsizeModulus - b) % UsizeModulus
\* whether the checked build (overflow-checks on, the default of debug and
\* test profiles) panics on a + b, a - b
add_overflows(a, b) == a + b > UsizeMax
sub_overflows(a, b) == a < b

\* ------------------------------------------------------------ Option<...>
\* One shape for every returned value: None, Some(v) (key 0) and Some((k, v)).
None == [some |-> FALSE, key |-> 0, value |-> 0]
Some(v) == [some |-> TRUE, key |-> 0, value |-> v]
SomeKV(k, v) == [some |-> TRUE, key |-> k, value |-> v]

\* what a call yields: the container after it, the value returned, and
\* whether it panicked (then self is the container as the panic left it and
\* nothing is returned)
Returned(s, r) == [self |-> s, ret |-> r, panic |-> FALSE]
Panicked(s) == [self |-> s, ret |-> None, panic |-> TRUE]

\* --------------------------------------------------------------- GenHolder
GenHolder(g, v) == [generation |-> g, value |-> v]

\* HashMap::insert, HashMap::remove, HashMap::get as Some/None
map_insert(m, k, h) == [x \in DOMAIN m \cup {k} |-> IF x = k THEN h ELSE m[x]]
map_remove(m, k) == [x \in DOMAIN m \ {k} |-> m[x]]
map_contains(m, k) == k \in DOMAIN m

\* ------------------------------------------------------------------ OrdHash
new == [map |-> [x \in {} |-> GenHolder(0, 0)], order |-> <<>>, generation |-> 0, length |-> 0]

len(self) == self.length
is_empty(self) == len(self) = 0
used_entries(self) == Len(self.order)

\* push_back stamping with the counter before its increment
push_back_stale_counter(self, key, value, checks) ==
    LET g == self.generation
        was_none == ~map_contains(self.map, key)
    IN  Returned([map |-> map_insert(self.map, key, GenHolder(g, value)),
                  order |-> Append(self.order, GenHolder(g, key)),
                  generation |-> wrapping_add(g, 1),
                  length |-> IF was_none THEN wrapping_add(self.length, 1)
                                         ELSE self.length], None)

\* push_back counting every call, also one that updates a live key
push_back_always_counting(self, key, value, checks) ==
    LET g == wrapping_add(self.generation, 1)
    IN  Returned([map |-> map_insert(self.map, key, GenHolder(g, value)),
                  order |-> Append(self.order, GenHolder(g, key)),
                  generation |-> g,
                  length |-> wrapping_add(self.length, 1)], None)

\* pub fn push_back(&mut self, key: K, value: V)
push_back(self, key, value, checks) ==
    IF checks /\ add_overflows(self.generation, 1) THEN Panicked(self)
    ELSE
    LET g == wrapping_add(self.generation, 1)
        s1 == [self EXCEPT !.generation = g]
        was_none == ~map_contains(self.map, key)
        s2 == [s1 EXCEPT !.map = map_insert(self.map, key, GenHolder(g, value))]
    IN  IF was_none /\ checks /\ add_overflows(s2.length, 1) THEN Panicked(s2)
        ELSE
        LET s3 == IF was_none THEN [s2 EXCEPT !.length = wrapping_add(s2.length, 1)] ELSE s2
            s4 == [s3 EXCEPT !.order = Append(s3.order, GenHolder(g, key))]
        IN  Returned(s4, None)

\* get without the test of the stamp: a disabled key is found
get_ignoring_stamp(self, key) ==
    IF map_contains(self.map, key) THEN Some(self.map[key].value) ELSE None

\* pub fn get(&self, key: &K) -> Option<&V>
get(self, key) ==
    IF map_contains(self.map, key) /\ 0 # self.map[key].generation
    THEN Some(self.map[key].value)
    ELSE None

\* the test of the scans without the comparison of the stamps: any tag of a
\* key that has a slot matches
tag_matches_any_stamp(self, tag) == map_contains(self.map, tag.value)

\* the test of the scans of pop_front and peek_front on one order tag
tag_matches(self, tag) ==
    map_contains(self.map, tag.value) /\ self.map[tag.value].generation = tag.generation

\* pop_front with `if let` in place of `while let`: it gives up at the first
\* tag that does not match
pop_front_first_tag_only(self, checks) ==
    IF self.order = <<>> THEN Returned(self, None)
    ELSE
    LET key == Head(self.order)
        s1 == [self EXCEPT !.order = Tail(self.order)]
    IN  IF tag_matches(s1, key)
        THEN LET s2 == [s1 EXCEPT !.map = map_remove(s1.map, key.value)]
             IN  IF checks /\ sub_overflows(s2.length, 1) THEN Panicked(s2)
                 ELSE Returned([s2 EXCEPT !.length = wrapping_sub(s2.length, 1)],
                               SomeKV(key.value, s1.map[key.value].value))
        ELSE Returned(s1, None)

\* pub fn pop_front(&mut self) -> Option<(K, V)>
RECURSIVE pop_front(_, _)
pop_front(self, checks) ==
    IF self.order = <<>> THEN Returned(self, None)
    ELSE
    LET key == Head(self.order)
        s1 == [self EXCEPT !.order = Tail(self.order)]
    IN  IF tag_matches(s1, key)
        THEN LET vh == s1.map[key.value]
                 s2 == [s1 EXCEPT !.map = map_remove(s1.map, key.value)]
             IN  IF checks /\ sub_overflows(s2.length, 1) THEN Panicked(s2)
                 ELSE Returned([s2 EXCEPT !.length = wrapping_sub(s2.length, 1)],
                               SomeKV(key.value, vh.value))
        ELSE pop_front(s1, checks)

\* pub fn peek_front(&self) -> Option<(&K, &V)>: the loop from tag i on
RECURSIVE peek_from(_, _)
peek_from(self, i) ==
    IF i > Len(self.order) THEN None
    ELSE IF tag_matches(self, self.order[i])
         THEN SomeKV(self.order[i].value, self.map[self.order[i].value].value)
         ELSE peek_from(self, i + 1)

peek_front(self) == peek_from(self, 1)

\* mark_unused that also drops the key's tags from the order queue
mark_unused_dropping_tags(self, key, checks) ==
    IF map_contains(self.map, key) /\ self.map[key].generation # 0
    THEN LET s1 == [self EXCEPT !.map[key].generation = 0,
                                !.order = SelectSeq(self.order,
                                              LAMBDA t : t.value # key)]
         IN  IF checks /\ sub_overflows(s1.length, 1) THEN Panicked(s1)
             ELSE Returned([s1 EXCEPT !.length = wrapping_sub(s1.length, 1)],
                           Some(s1.map[key].value))
    ELSE Returned(self, None)

\* pub fn mark_unused(&mut self, key: &K) -> Option<&V>
mark_unused(self, key, checks) ==
    IF map_contains(self.map, key) /\ self.map[key].generation # 0
    THEN LET s1 == [self EXCEPT !.map[key].generation = 0]
         IN  IF checks /\ sub_overflows(s1.length, 1) THEN Panicked(s1)
             ELSE Returned([s1 EXCEPT !.length = wrapping_sub(s1.length, 1)],
                           Some(s1.map[key].value))
    ELSE Returned(self, None)

\* refresh that re-stamps the slot and appends no tag
refresh_without_tag(self, key, checks) ==
    IF map_contains(self.map, key)
    THEN LET g == wrapping_add(self.generation, 1)
             s1 == IF 0 = self.map[key].generation
                   THEN [self EXCEPT !.length = wrapping_add(self.length, 1)]
                   ELSE self
             s2 == [s1 EXCEPT !.generation = g, !.map[key].generation = g]
         IN  IF checks /\ (add_overflows(self.generation, 1)
                            \/ (0 = self.map[key].generation
                                /\ add_overflows(self.length, 1)))
             THEN Panicked(self)
             ELSE Returned(s2, Some(s2.map[key].value))
    ELSE Returned(self, None)

\* refresh stamping with the counter as it is, without the increment
refresh_keeping_counter(self, key, checks) ==
    IF map_contains(self.map, key)
    THEN LET g == self.generation
             s1 == IF 0 = self.map[key].generation
                   THEN [self EXCEPT !.length = wrapping_add(self.length, 1)]
                   ELSE self
             s2 == [s1 EXCEPT !.map[key].generation = g,
                              !.order = Append(s1.order, GenHolder(g, key))]
         IN  Returned(s2, Some(s2.map[key].value))
    ELSE Returned(self, None)

\* pub fn refresh(&mut self, key: &K) -> Option<&V>
refresh(self, key, checks) ==
    IF map_contains(self.map, key)
    THEN LET was_unused == 0 = self.map[key].generation
         IN  IF was_unused /\ checks /\ add_overflows(self.length, 1) THEN Panicked(self)
             ELSE
             LET s1 == IF was_unused
                       THEN [self EXCEPT !.length = wrapping_add(self.length, 1)]
                       ELSE self
             IN  IF checks /\ add_overflows(s1.generation, 1) THEN Panicked(s1)
                 ELSE
                 LET g == wrapping_add(s1.generation, 1)
                     s2 == [s1 EXCEPT !.generation = g]
                     s3 == [s2 EXCEPT !.map[key].generation = g]
                     s4 == [s3 EXCEPT !.order = Append(s3.order, GenHolder(g, key))]
                 IN  Returned(s4, Some(s4.map[key].value))
    ELSE Returned(self, None)

\* ------------------------------------------------------------------- state
VARIABLES
    map,              \* self.map
    order,            \* self.order
    generation,       \* self.generation
    length,           \* self.length
    overflow_checks,  \* the build: TRUE panics on usize overflow, FALSE wraps
    panicked,         \* a call panicked; the container is used no further
    last,             \* the last call: its name and arguments
    ret,              \* what the last call returned
    stored,           \* for each key, the value of the last push_back of it since
                      \* it was last returned by pop_front (0: none)
    fate,             \* for each key, what the calls that returned made of it:
                      \* "absent" (never pushed, or popped), "live" or "disabled"
    marked,           \* for each disabled key, the value the mark_unused that
                      \* disabled it returned (0 for the other keys)
    stamped           \* for each key, the number of push_back and refresh calls
                      \* that stamped it since its slot was created (0: no slot)

vars == <<map, order, generation, length, overflow_checks, panicked, last, ret, stored, fate,
          marked, stamped>>
fields == <<map, order, generation, length>>

Self == [map |-> map, order |-> order, generation |-> generation, length |-> length]

Call(op, k, v) == [op |-> op, key |-> k, value |-> v]

\* the fields, the panic flag and the returned value after a &mut self call
Becomes(r) ==
    /\ map' = r.self.map
    /\ order' = r.self.order
    /\ generation' = r.self.generation
    /\ length' = r.self.length
    /\ panicked' = r.panic
    /\ ret' = r.ret

Init ==
    /\ map = new.map
    /\ order = new.order
    /\ generation = new.generation
    /\ length = new.length
    /\ overflow_checks \in BOOLEAN
    /\ panicked = FALSE
    /\ last = Call("new", 0, 0)
    /\ ret = None
    /\ stored = [k \in Keys |-> 0]
    /\ fate = [k \in Keys |-> "absent"]
    /\ marked = [k \in Keys |-> 0]
    /\ stamped = [k \in Keys |-> 0]

PushBack(k, v) ==
    /\ ~panicked
    /\ generation < MaxGen
    /\ Becomes(push_back(Self, k, v, overflow_checks))
    /\ last' = Call("push_back", k, v)
    /\ stored' = [stored EXCEPT ![k] = v]
    /\ fate' = IF panicked' THEN fate ELSE [fate EXCEPT ![k] = "live"]
    /\ marked' = IF panicked' THEN marked ELSE [marked EXCEPT ![k] = 0]
    /\ stamped' = IF panicked' THEN stamped ELSE [stamped EXCEPT ![k] = @ + 1]
    /\ UNCHANGED overflow_checks

Get(k) ==
    /\ ~panicked
    /\ ret' = get(Self, k)
    /\ last' = Call("get", k, 0)
    /\ UNCHANGED <<fields, overflow_checks, panicked, stored, fate, marked, stamped>>

PopFront ==
    /\ ~panicked
    /\ Becomes(pop_front(Self, overflow_checks))
    /\ last' = Call("pop_front", 0, 0)
    /\ fate' = IF ret'.some THEN [fate EXCEPT ![ret'.key] = "absent"] ELSE fate
    /\ stored' = IF ret'.some THEN [stored EXCEPT ![ret'.key] = 0] ELSE stored
    /\ marked' = IF ret'.some THEN [marked EXCEPT ![ret'.key] = 0] ELSE marked
    /\ stamped' = IF ret'.some THEN [stamped EXCEPT ![ret'.key] = 0] ELSE stamped
    /\ UNCHANGED overflow_checks

PeekFront ==
    /\ ~panicked
    /\ ret' = peek_front(Self)
    /\ last' = Call("peek_front", 0, 0)
    /\ UNCHANGED <<fields, overflow_checks, panicked, stored, fate, marked, stamped>>

MarkUnused(k) ==
    /\ ~panicked
    /\ Becomes(mark_unused(Self, k, overflow_checks))
    /\ last' = Call("mark_unused", k, 0)
    /\ fate' = IF ret'.some THEN [fate EXCEPT ![k] = "disabled"] ELSE fate
    /\ marked' = IF ret'.some THEN [marked EXCEPT ![k] = ret'.value] ELSE marked
    /\ UNCHANGED <<overflow_checks, stored, stamped>>

Refresh(k) ==
    /\ ~panicked
    /\ generation < MaxGen
    /\ Becomes(refresh(Self, k, overflow_checks))
    /\ last' = Call("refresh", k, 0)
    /\ fate' = IF ret'.some THEN [fate EXCEPT ![k] = "live"] ELSE fate
    /\ marked' = IF ret'.some THEN [marked EXCEPT ![k] = 0] ELSE marked
    /\ stamped' = IF ret'.some THEN [stamped EXCEPT ![k] = @ + 1] ELSE stamped
    /\ UNCHANGED <<overflow_checks, stored>>

Next ==
    \/ \E k \in Keys, v \in Vals : PushBack(k, v)
    \/ \E k \in Keys : Get(k)
    \/ PopFront
    \/ PeekFront
    \/ \E k \in Keys : MarkUnused(k)
    \/ \E k \in Keys : Refresh(k)

Spec == Init /\ [][Next]_vars

\* ------------------------------------------------------- derived notions
\* the keys that have a slot, and among them the live ones (non-zero stamp)
\* and the disabled ones (stamp 0)
HasSlot(self, k) == map_contains(self.map, k)
IsLive(self, k) == HasSlot(self, k) /\ self.map[k].generation # 0
IsDisabled(self, k) == HasSlot(self, k) /\ self.map[k].generation = 0
LiveKeys(self) == {k \in DOMAIN self.map : IsLive(self, k)}

\* `while let Some(..) = m.pop_front() {}`: the pairs returned, in order, the
\* container the loop leaves, and whether a pop_front of the loop panicked
RECURSIVE drain(_, _)
drain(self, checks) ==
    LET r == pop_front(self, checks)
    IN  IF r.panic THEN [popped |-> <<>>, self |-> r.self, panic |-> TRUE]
        ELSE IF ~r.ret.some THEN [popped |-> <<>>, self |-> r.self, panic |-> FALSE]
        ELSE LET d == drain(r.self, checks)
             IN  [popped |-> <<r.ret>> \o d.popped, self |-> d.self, panic |-> d.panic]

\* the stamp a key's slot holds
stamp(self, k) == self.map[k].generation

\* the place of key k among the pairs a drain returned (0: not returned)
RECURSIVE place_from(_, _, _)
place_from(popped, k, i) ==
    IF i > Len(popped) THEN 0
    ELSE IF popped[i].key = k THEN i ELSE place_from(popped, k, i + 1)

place(popped, k) == place_from(popped, k, 1)

\* a drain of self returns k, and returns it after every key of `others`
PoppedLast(self, checks, k, others) ==
    LET d == drain(self, checks)
    IN  /\ place(d.popped, k) > 0
        /\ \A j \in others \ {k} :
               /\ place(d.popped, j) > 0
               /\ place(d.popped, j) < place(d.popped, k)

\* the keys a drain of self returns, in order, without key k
RECURSIVE without(_, _)
without(popped, k) ==
    IF popped = <<>> THEN <<>>
    ELSE IF Head(popped).key = k THEN without(Tail(popped), k)
         ELSE <<Head(popped).key>> \o without(Tail(popped), k)

OthersOrder(self, checks, k) == without(drain(self, checks).popped, k)

\* the step just taken was the call op(k, v), whether it returned or panicked
Called(op, k, v) == last' = Call(op, k, v) /\ ~panicked

\* ------------------------------------------------------------------ claims

\* C1: after every sequence of calls that returned, len() is the number of
\* keys whose slot holds a non-zero stamp.
C1_LenCountsLive == ~panicked => len(Self) = Cardinality(LiveKeys(Self))

\* C4: push_back(k, v) on a key that has no slot or is disabled increases
\* len() by exactly 1; the key is live afterwards and get(k) returns v.
C4_PushBackAbsentOrDisabled ==
    [][\A k \in Keys, v \in Vals :
         (Called("push_back", k, v) /\ (~HasSlot(Self, k) \/ IsDisabled(Self, k)))
         => /\ ~panicked'
            /\ len(Self') = len(Self) + 1
            /\ IsLive(Self', k)
            /\ get(Self', k) = Some(v)]_vars

\* C2: pop_front() returns absent exactly when no key is live; otherwise it
\* returns (k, v) with k the live key of the smallest stamp and v the value
\* last stored for k, after which k has no slot, get(k) is absent and len()
\* is one less than before.
C2_PopFront ==
    [][Called("pop_front", 0, 0)
       => /\ ~panicked'
          /\ (~ret'.some <=> LiveKeys(Self) = {})
          /\ ret'.some
             => LET k == ret'.key
                IN  /\ IsLive(Self, k)
                    /\ \A j \in LiveKeys(Self) : stamp(Self, k) <= stamp(Self, j)
                    /\ ret'.value = stored[k]
                    /\ ~HasSlot(Self', k)
                    /\ get(Self', k) = None
                    /\ len(Self') = len(Self) - 1]_vars

\* C3: from any reachable state, pop_front() called until it returns absent
\* returns the live entries in strictly increasing stamp order, no key twice,
\* every key live at the start exactly once, and leaves pop_front() absent
\* and is_empty() true.
C3_DrainIsFifo ==
    ~panicked =>
    LET d == drain(Self, overflow_checks)
        n == Len(d.popped)
    IN  /\ ~d.panic
        /\ \A i \in 1..n : IsLive(Self, d.popped[i].key)
        /\ \A i, j \in 1..n :
               i < j => stamp(Self, d.popped[i].key) < stamp(Self, d.popped[j].key)
        /\ \A i, j \in 1..n : i # j => d.popped[i].key # d.popped[j].key
        /\ {d.popped[i].key : i \in 1..n} = LiveKeys(Self)
        /\ ~pop_front(d.self, overflow_checks).ret.some
        /\ is_empty(d.self)

\* C5: push_back(k, v) on a live key leaves len() unchanged, increases
\* used_entries() by exactly 1, replaces the value by v, and moves k to the
\* back: a following drain returns k after every other key live at the call.
C5_PushBackLive ==
    [][\A k \in Keys, v \in Vals :
         (Called("push_back", k, v) /\ IsLive(Self, k))
         => /\ ~panicked'
            /\ len(Self') = len(Self)
            /\ used_entries(Self') = used_entries(Self) + 1
            /\ get(Self', k) = Some(v)
            /\ PoppedLast(Self', overflow_checks, k, LiveKeys(Self))]_vars

\* C6: peek_front() returns what an immediately following pop_front()
\* returns (absent when that returns absent), and changes no field.
C6_PeekFront ==
    [][Called("peek_front", 0, 0)
       => /\ ~panicked'
          /\ UNCHANGED <<map, order, generation, length>>
          /\ LET r == pop_front(Self', overflow_checks)
             IN  ~r.panic /\ ret' = r.ret]_vars

\* C7: mark_unused(k) on a live key returns its value, sets its stamp to 0
\* and decreases len() by exactly 1; on a key with no slot or a disabled key
\* it returns absent and changes no field.  While a key is disabled, get(k)
\* is absent and neither peek_front nor pop_front returns it.
C7_MarkUnusedStep ==
    \A k \in Keys :
        Called("mark_unused", k, 0)
        => /\ ~panicked'
           /\ IsLive(Self, k)
              => /\ ret' = Some(Self.map[k].value)
                 /\ IsDisabled(Self', k)
                 /\ len(Self') = len(Self) - 1
                 /\ get(Self', k) = None
           /\ ~IsLive(Self, k)
              => /\ ret' = None
                 /\ UNCHANGED <<map, order, generation, length>>

C7_DisabledIsHidden ==
    ~panicked =>
    \A k \in Keys :
        fate[k] = "disabled"
        => /\ get(Self, k) = None
           /\ peek_front(Self) # SomeKV(k, peek_front(Self).value)
           /\ LET r == pop_front(Self, overflow_checks)
              IN  r.ret # SomeKV(k, r.ret.value)

C7_MarkUnused == [][C7_MarkUnusedStep]_vars /\ []C7_DisabledIsHidden

\* C8: refresh(k) on a key with a slot returns its value; a disabled key
\* becomes live and len() increases by exactly 1, for a live key len() is
\* unchanged; in both cases used_entries() increases by exactly 1 and a
\* following drain returns k after every other live key.  On a key with no
\* slot it returns absent and leaves len(), used_entries(), the counter and
\* every slot unchanged.
C8_Refresh ==
    [][\A k \in Keys :
         Called("refresh", k, 0)
         => /\ ~panicked'
            /\ HasSlot(Self, k)
               => /\ ret' = Some(Self.map[k].value)
                  /\ IsLive(Self', k)
                  /\ IsDisabled(Self, k) => len(Self') = len(Self) + 1
                  /\ IsLive(Self, k) => len(Self') = len(Self)
                  /\ used_entries(Self') = used_entries(Self) + 1
                  /\ PoppedLast(Self', overflow_checks, k, LiveKeys(Self))
            /\ ~HasSlot(Self, k)
               => /\ ret' = None
                  /\ len(Self') = len(Self)
                  /\ used_entries(Self') = used_entries(Self)
                  /\ generation' = generation
                  /\ map' = map]_vars

\* C9: mark_unused(k) on a live key followed, after calls on other keys
\* only, by refresh(k) gives k back with the value it had when disabled and
\* places it at the back: a following drain returns k after every other
\* live key.  Neither call changes the order in which a drain returns the
\* other keys.
C9_DisableThenRefresh ==
    [][\A k \in Keys :
         /\ (Called("mark_unused", k, 0) /\ IsLive(Self, k))
            => OthersOrder(Self', overflow_checks, k) = OthersOrder(Self, overflow_checks, k)
         /\ (Called("refresh", k, 0) /\ fate[k] = "disabled")
            => /\ ~panicked'
               /\ ret' = Some(marked[k])
               /\ get(Self', k) = Some(marked[k])
               /\ PoppedLast(Self', overflow_checks, k, LiveKeys(Self))
               /\ OthersOrder(Self', overflow_checks, k)
                      = OthersOrder(Self, overflow_checks, k)]_vars

\* C10: get(k) returns the value last stored for k by push_back exactly when
\* k has a slot with a non-zero stamp; it returns absent for a key never
\* inserted, popped or disabled; and it changes no field.
C10_Get ==
    [][\A k \in Keys :
         Called("get", k, 0)
         => /\ ~panicked'
            /\ ret'.some <=> IsLive(Self, k)
            /\ ret'.some => ret' = Some(stored[k])
            /\ fate[k] = "live" => ret' = Some(stored[k])
            /\ fate[k] \in {"absent", "disabled"} => ret' = None
            /\ UNCHANGED <<map, order, generation, length>>]_vars

\* get returned the last stored value of a live key that also has a stale
\* tag in the order queue, while another key is disabled
C10_Witness ==
    /\ ~panicked
    /\ last.op = "get"
    /\ ret.some
    /\ ret.value = stored[last.key]
    /\ \E i \in 1..Len(order) :
           order[i].value = last.key /\ order[i].generation # stamp(Self, last.key)
    /\ \E j \in Keys : fate[j] = "disabled" /\ IsDisabled(Self, j)

\* C11: in every reachable state used_entries(), the length of the order
\* queue with its stale tags, is at least len().
C11_UsedAtLeastLen == ~panicked => used_entries(Self) >= len(Self)

\* a tag of the order queue whose stamp is not the stamp of its key's slot
HasStaleTag(self) == \E i \in 1..Len(self.order) : ~tag_matches(self, self.order[i])

\* C12 as stated: used_entries() == len() holds exactly when no key has been
\* stamped again (updated, refreshed, or disabled and then refreshed) since
\* its slot was created.
C12_EqualIffNeverRestamped ==
    ~panicked =>
    (used_entries(Self) = len(Self) <=> \A k \in Keys : stamped[k] <= 1)

\* C12 as amended: used_entries() == len() holds only when no tag of the
\* order queue is stale.
C12_EqualOnlyIfNoStaleTag ==
    ~panicked => (used_entries(Self) = len(Self) => ~HasStaleTag(Self))

\* used_entries() == len() after pop_front discarded the tags of a key that
\* was stamped twice and still has its slot
C12_Witness ==
    /\ ~panicked
    /\ last.op = "pop_front"
    /\ ret.some
    /\ used_entries(Self) = len(Self)
    /\ \E k \in Keys : stamped[k] >= 2 /\ HasSlot(Self, k)

\* the container holds no slot and no tag
IsEmptyContainer(self) == DOMAIN self.map = {} /\ self.order = <<>>

\* C13: no call takes a fatal-error path: the decrement of the live count
\* in pop_front and in mark_unused is never applied to 0, and on a container
\* without slots and tags get, pop_front, peek_front, mark_unused and
\* refresh return absent and change nothing.
C13_NoCallPanicsStep ==
    /\ ~panicked => ~panicked'
    /\ (Called("pop_front", 0, 0) /\ (ret'.some \/ panicked')) => len(Self) > 0
    /\ \A k \in Keys :
           (Called("mark_unused", k, 0) /\ IsLive(Self, k)) => len(Self) > 0

C13_EmptyReturnsAbsent ==
    (~panicked /\ IsEmptyContainer(Self)) =>
    /\ pop_front(Self, overflow_checks) = Returned(Self, None)
    /\ peek_front(Self) = None
    /\ \A k \in Keys :
           /\ get(Self, k) = None
           /\ mark_unused(Self, k, overflow_checks) = Returned(Self, None)
           /\ refresh(Self, k, overflow_checks) = Returned(Self, None)

C13_NoFatalError == [][C13_NoCallPanicsStep]_vars /\ []C13_EmptyReturnsAbsent

\* C14: a slot leaves the map only in a pop_front call that returns its
\* key.  A disabled key is neither removed nor returned by pop_front: from
\* the mark_unused(k) that disabled it until a push_back(k, _) or a
\* refresh(k), the slot exists with stamp 0 and the value it had, and a
\* refresh(k) then returns that value.
C14_SlotLeavesOnlyByPopStep ==
    \A k \in Keys :
        /\ (~panicked' /\ HasSlot(Self, k) /\ ~HasSlot(Self', k))
           => /\ last' = Call("pop_front", 0, 0)
              /\ ret' = SomeKV(k, Self.map[k].value)
              /\ fate[k] = "live"
        /\ (Called("pop_front", 0, 0) /\ fate[k] = "disabled" /\ ~panicked')
           => ret' # SomeKV(k, ret'.value) /\ fate'[k] = "disabled"
        /\ (Called("refresh", k, 0) /\ fate[k] = "disabled")
           => ~panicked' /\ ret' = Some(marked[k])

C14_DisabledSlotStays ==
    ~panicked =>
    \A k \in Keys :
        fate[k] = "disabled"
        => HasSlot(Self, k) /\ stamp(Self, k) = 0 /\ Self.map[k].value = marked[k]

TagsOf(self, k) == {i \in 1..Len(self.order) : self.order[i].value = k}
CurrentTagsOf(self, k) ==
    {i \in TagsOf(self, k) : HasSlot(self, k) /\ self.order[i].generation = stamp(self, k)}

\* C15: for every key with a slot at most one tag carries the slot's stamp,
\* and that tag comes after every other tag of the key; no tag carries
\* stamp 0, so a disabled slot matches no tag.
C15_OneCurrentTagLast ==
    /\ \A i \in 1..Len(order) : order[i].generation # 0
    /\ \A k \in DOMAIN map :
           /\ Cardinality(CurrentTagsOf(Self, k)) <= 1
           /\ \A i \in CurrentTagsOf(Self, k) : \A j \in TagsOf(Self, k) : j <= i
           /\ IsDisabled(Self, k) => CurrentTagsOf(Self, k) = {}

\* a live key with a stale tag before its current tag, next to a disabled
\* key that has a tag
C15_Witness ==
    /\ ~panicked
    /\ \E k \in Keys :
           /\ IsLive(Self, k)
           /\ Cardinality(TagsOf(Self, k)) >= 2
           /\ Cardinality(CurrentTagsOf(Self, k)) = 1
    /\ \E k \in Keys : IsDisabled(Self, k) /\ TagsOf(Self, k) # {}

\* the place of the first tag of the order queue that passes the stamp test
\* (0: no tag passes)
FirstValid(self) ==
    LET valid == {i \in 1..Len(self.order) : tag_matches(self, self.order[i])}
    IN  IF valid = {} THEN 0 ELSE CHOOSE i \in valid : \A j \in valid : i <= j

\* C16: a pop_front() that returns removes from the head of the order queue
\* the stale tags before the first valid tag and that tag, and leaves the
\* tags after it as they were; when no tag is valid it removes every tag
\* and returns absent, so that used_entries() == 0 afterwards.
C16_PopFrontTrimsHead ==
    [][(Called("pop_front", 0, 0) /\ ~panicked')
       => LET f == FirstValid(Self)
          IN  /\ f > 0 => /\ ret' = SomeKV(order[f].value, map[order[f].value].value)
                          /\ order' = SubSeq(order, f + 1, Len(order))
              /\ f = 0 => /\ ret' = None
                          /\ order' = <<>>
              /\ ~ret'.some => used_entries(Self') = 0]_vars

\* a pop_front returned a key and left a tag in the queue, after the stale
\* tag of a key that was stamped twice and still has its slot was discarded
C16_Witness ==
    /\ ~panicked
    /\ last.op = "pop_front"
    /\ ret.some
    /\ order # <<>>
    /\ \E k \in Keys :
           stamped[k] >= 2 /\ HasSlot(Self, k) /\ Cardinality(TagsOf(Self, k)) = 1

\* a pop_front found only stale tags, discarded them and returned absent
C16_WitnessAbsent ==
    /\ ~panicked
    /\ last.op = "pop_front"
    /\ ~ret.some
    /\ order = <<>>
    /\ generation >= 2
    /\ DOMAIN map # {}

\* every stamp the map and the order queue of self hold
StampsOf(self) ==
    {self.map[k].generation : k \in DOMAIN self.map}
        \cup {self.order[i].generation : i \in 1..Len(self.order)}

\* the call stamped key k: the counter went up by exactly 1, and the new
\* counter value, non-zero and above every stamp held before, is the stamp
\* of k's slot and of the tag appended for k
Stamps(k) ==
    /\ generation' = generation + 1
    /\ generation' # 0
    /\ \A g \in StampsOf(Self) : g < generation'
    /\ HasSlot(Self', k) /\ stamp(Self', k) = generation'
    /\ order' = Append(order, GenHolder(generation', k))

\* C17: the generation counter never decreases; every push_back and every
\* refresh of a key that has a slot increments it by exactly 1 and writes
\* the new value, non-zero and greater than every stamp written before, to
\* the slot and to the appended tag; no other call changes it.
C17_CounterStep ==
    /\ generation' >= generation
    /\ \A k \in Keys, v \in Vals :
           (Called("push_back", k, v) /\ ~panicked') => Stamps(k)
    /\ \A k \in Keys :
           (Called("refresh", k, 0) /\ ~panicked')
           => IF HasSlot(Self, k) THEN Stamps(k) ELSE generation' = generation
    /\ last'.op \notin {"push_back", "refresh"} => generation' = generation

C17_StampsBelowCounter == \A g \in StampsOf(Self) : g <= generation

C17_CounterStamps == [][C17_CounterStep]_vars /\ []C17_StampsBelowCounter

\* a refresh wrote the third stamp to its key's slot and to the tag it
\* appended
C17_Witness ==
    /\ ~panicked
    /\ last.op = "refresh"
    /\ ret.some
    /\ generation = 3
    /\ stamp(Self, last.key) = 3
    /\ order[Len(order)] = GenHolder(3, last.key)
    /\ Len(order) = 3

\* C18: mark_unused(k) leaves the generation counter, the order queue, the
\* value stored for k and every other key's slot as they were.
C18_MarkUnusedFrame ==
    \A k \in Keys :
        (Called("mark_unused", k, 0) /\ ~panicked')
        => /\ generation' = generation
           /\ order' = order
           /\ used_entries(Self') = used_entries(Self)
           /\ DOMAIN map' = DOMAIN map
           /\ \A j \in DOMAIN map : j # k => map'[j] = map[j]
           /\ HasSlot(Self, k) => map'[k].value = map[k].value

C18_MarkUnusedKeepsRest == [][C18_MarkUnusedFrame]_vars

\* mark_unused disabled a live key while another key held a slot and the
\* queue held the tags of both
C18_Witness ==
    /\ ~panicked
    /\ last.op = "mark_unused"
    /\ ret.some
    /\ IsDisabled(Self, last.key)
    /\ \E j \in Keys : j # last.key /\ IsLive(Self, j)
    /\ Len(order) >= 2
    /\ TagsOf(Self, last.key) # {}

\* C19: every key whose slot has a non-zero stamp has exactly one tag in
\* the order queue with that key and that stamp, so the front scan finds a
\* valid tag whenever a key is live.
C19_LiveKeyHasItsTag ==
    /\ \A k \in LiveKeys(Self) : Cardinality(CurrentTagsOf(Self, k)) = 1
    /\ LiveKeys(Self) # {} => FirstValid(Self) # 0

\* every key is live, one of them moved to the back by a refresh that
\* left a stale tag of it in the queue
C19_Witness ==
    /\ ~panicked
    /\ last.op = "refresh"
    /\ ret.some
    /\ LiveKeys(Self) = Keys
    /\ Cardinality(TagsOf(Self, last.key)) >= 2
    /\ Len(order) > NumKeys

\* C20: is_empty() is true exactly when peek_front() returns absent.
C20_EmptyIffNoFront ==
    ~panicked => (is_empty(Self) <=> ~peek_front(Self).some)

=============================================================================
